---- MODULE Spec2Model ----
(***************************************************************************)
(* The soroban-dex order book: the storage layer (orderbook/src/storage.rs),*)
(* the matching engine (orderbook/src/lib.rs), the market contract         *)
(* (contracts/dex-market/src/lib.rs) and the token it settles with         *)
(* (contracts/test-token/src/lib.rs).                                      *)
(*                                                                         *)
(* Integer widths are scaled down, keeping their proportions: u128/i128    *)
(* become U128Bits wide, the u64 price PriceBits wide with FracBits        *)
(* fractional bits, and the top byte of the price (byte 4 of an OrderId)   *)
(* becomes the digits of the price above HiUnit.                           *)
(*                                                                         *)
(* Arithmetic.  `as i128` wraps in every build.  The conversions and the   *)
(* product of the fixed crate (from_num, *, to_num) check their range with *)
(* debug assertions: they panic in a build that has them (the test         *)
(* profile) and wrap in a build that has not (the release profile); the    *)
(* variable debug_assertions is the build.  The i128 sums and differences  *)
(* of the token and of the market are taken as overflow-checked.           *)
(*                                                                         *)
(* A call that returns Err or panics is rolled back by the host.           *)
(***************************************************************************)
EXTENDS Integers, Sequences, FiniteSets, TLC

VARIABLES
    debug_assertions, \* the build: TRUE = test profile, FALSE = release profile
    market_info,      \* instance storage, key MARKET_INFO
    bal,              \* the two token contracts' persistent storage
    book,             \* persistent storage: book_key(side) -> Map<u64, ()>
    queue,            \* persistent storage: price_queue_key(price) -> Vec<u32>
    recs,             \* persistent storage: OrderId -> details or size
    events,           \* persistent storage: Map<OrderId, Vec<OrderEvent>>
    live,             \* history: the orders placed through the storage test contract
    last              \* history: the last call, its arguments and what it did

vars == <<debug_assertions, market_info, bal, book, queue, recs, events, live, last>>

---------------------------------------------------------------------------
(* Widths *)

\* u128 and i128 (scaled from 128)
U128Bits == 12
\* U96F32 and U32F32: fractional bits (scaled from 32)
FracBits == 2
\* u64 price: PriceBits wide (scaled from 64); its top byte is price \div HiUnit
PriceBits == 6
\* the value of byte 4 counts units of HiUnit (scaled from 2^56)
HiUnit == 2 ^ (PriceBits - 2)

U128Mod == 2 ^ U128Bits
I128Max == 2 ^ (U128Bits - 1) - 1
I128Min == -(2 ^ (U128Bits - 1))
FracUnit == 2 ^ FracBits
\* 2^96 scaled: the integer range of U96F32
FixedIntMod == 2 ^ (U128Bits - FracBits)

ORDER_ATTR_KEY_DETAIL == 0
ORDER_ATTR_KEY_SIZE == 1

---------------------------------------------------------------------------
(* Bounds and input sets *)

\* the calls that would leave more than MaxOrders orders in the queues, or give
\* an order a local id above MaxLocalId, are left out
MaxOrders == 2
MaxLocalId == 2

Users == {"u0", "u1"}
Contract == "market"
Addresses == Users \cup {Contract}
Sides == {"Bid", "Ask"}
BaseToken == "base"
QuoteToken == "quote"
Tokens == {BaseToken, QuoteToken}
Prefix == "F1A0"

\* 1.0 and 1.5, and 1.0 with the top byte set to 2
Prices == {4, 6, 2 * HiUnit + 4}
\* small sizes, and the first size above i128::MAX whose low bits are 1
Sizes == {1, 2, I128Max + 2}
MinSizes == {1, 2}
LocalIds == 0 .. MaxLocalId

---------------------------------------------------------------------------
(* OrderId codec: storage.rs 26-71 *)

SideByte(side) == IF side = "Bid" THEN 0 ELSE 1

\* the 16 bytes as fields: prefix (0..2), side (3), byte 4, bytes 5..12, bytes 12..16
OrderIdNewNoTopByte(prefix, side, price, id) ==
    [prefix |-> prefix, side |-> SideByte(side),
     b4 |-> 0, lo |-> price % HiUnit, lid |-> id]

OrderIdNew(prefix, side, price, id) ==
    [prefix |-> prefix, side |-> SideByte(side),
     b4 |-> price \div HiUnit, lo |-> price % HiUnit, lid |-> id]

IdSide(id) == IF id.side = 0 THEN "Bid" ELSE "Ask"

IdPrice(id) == id.b4 * HiUnit + id.lo

IdLocal(id) == id.lid

\* the first 12 bytes with byte 4 set to 0
PriceKey(id) == <<id.prefix, id.side, 0, id.lo>>

WithAttrKey(id, key) == [id EXCEPT !.b4 = key]

---------------------------------------------------------------------------
(* BookStorage: storage.rs 113-242.  A storage state s is a record with the *)
(* fields book, queue and recs (and more, which these operators keep).     *)

PriceQueueKey(price) == PriceKey(OrderIdNew(Prefix, "Bid", price, 0))

GetBook(s, side) == s.book[side]

GetPriceQueue(s, price) ==
    IF PriceQueueKey(price) \in DOMAIN s.queue THEN s.queue[PriceQueueKey(price)] ELSE <<>>

SetPriceQueue(s, price, q) ==
    [s EXCEPT !.queue =
        [k \in (DOMAIN s.queue) \cup {PriceQueueKey(price)} |->
            IF k = PriceQueueKey(price) THEN q ELSE s.queue[k]]]

SetRec(s, key, val) ==
    [s EXCEPT !.recs = [k \in (DOMAIN s.recs) \cup {key} |-> IF k = key THEN val ELSE s.recs[k]]]

RemoveRec(s, key) ==
    [s EXCEPT !.recs = [k \in (DOMAIN s.recs) \ {key} |-> s.recs[k]]]

SetOrderSize(s, id, size) ==
    SetRec(s, WithAttrKey(id, ORDER_ATTR_KEY_SIZE), [t |-> "u128", v |-> size])

NoEntry == [some |-> FALSE, panic |-> FALSE]

\* get::<_, V> unwraps the conversion of the stored value: a value of another
\* type is a panic
GetOrder(s, id) ==
    LET size_key == WithAttrKey(id, ORDER_ATTR_KEY_SIZE) IN
    IF size_key \notin DOMAIN s.recs THEN NoEntry
    ELSE IF s.recs[size_key].t # "u128" THEN [some |-> FALSE, panic |-> TRUE]
    ELSE IF id \notin DOMAIN s.recs THEN NoEntry
    ELSE IF s.recs[id].t # "details" THEN [some |-> FALSE, panic |-> TRUE]
    ELSE [some |-> TRUE, panic |-> FALSE, id |-> id, price |-> IdPrice(id),
          size |-> s.recs[size_key].v, details |-> s.recs[id].v]

Last(q) == q[Len(q)]

\* storage.rs 188-193: the price joins the side's price list
WithPrice(s, side, price) ==
    IF price \in GetBook(s, side) THEN s ELSE [s EXCEPT !.book[side] = @ \cup {price}]

\* storage.rs 197
NextLocalId(q) == IF Len(q) > 0 THEN Last(q) + 1 ELSE 0

\* storage.rs 199-207: the queue entry, the details and the size
WriteOrder(s, price, size, details, order_id) ==
    SetOrderSize(
        SetRec(SetPriceQueue(s, price, Append(GetPriceQueue(s, price), IdLocal(order_id))),
               order_id, [t |-> "details", v |-> details]),
        order_id, size)

\* place_order: the state and the id it returns
StoragePlaceOrder(s, side, price, size, details) ==
    [s |-> WriteOrder(WithPrice(s, side, price), price, size, details,
                      OrderIdNew(Prefix, side, price, NextLocalId(GetPriceQueue(s, price)))),
     id |-> OrderIdNew(Prefix, side, price, NextLocalId(GetPriceQueue(s, price)))]

RECURSIVE FirstIndexOf(_, _, _)
FirstIndexOf(q, x, i) ==
    IF i > Len(q) THEN 0 ELSE IF q[i] = x THEN i ELSE FirstIndexOf(q, x, i + 1)

RemoveAt(q, i) == [j \in 1 .. (Len(q) - 1) |-> IF j < i THEN q[j] ELSE q[j + 1]]

\* storage.rs 220-222
RemoveFirst(q, x) == IF FirstIndexOf(q, x, 1) > 0 THEN RemoveAt(q, FirstIndexOf(q, x, 1)) ELSE q

\* storage.rs 224-236
StoreQueueOrDrop(s, id, q) ==
    IF q # <<>> THEN SetPriceQueue(s, IdPrice(id), q)
    ELSE [s EXCEPT
            !.queue = [k \in (DOMAIN s.queue) \ {PriceQueueKey(IdPrice(id))} |-> s.queue[k]],
            !.book[IdSide(id)] = @ \ {IdPrice(id)}]

\* storage.rs 218-236
UpdateQueue(s, id) ==
    StoreQueueOrDrop(s, id, RemoveFirst(GetPriceQueue(s, IdPrice(id)), IdLocal(id)))

StorageRemoveOrder(s, id) ==
    UpdateQueue(RemoveRec(RemoveRec(s, id), WithAttrKey(id, ORDER_ATTR_KEY_SIZE)), id)

StorageModifyOrder(s, id, size) == SetOrderSize(s, id, size)

\* Map<u64, ()>::keys(): ascending
RECURSIVE Ascending(_)
Ascending(S) ==
    IF S = {} THEN <<>>
    ELSE LET m == CHOOSE x \in S : \A y \in S : x <= y IN <<m>> \o Ascending(S \ {m})

RECURSIVE Reverse(_)
Reverse(q) == IF q = <<>> THEN <<>> ELSE Reverse(Tail(q)) \o <<Head(q)>>

\* an iteration in ascending price on both sides
OrdersPricesAscending(s, side) == Ascending(GetBook(s, side))

\* storage.rs 177-184: the prices StoredOrders walks, in its order
OrdersPrices(s, side) ==
    IF side = "Bid" THEN Reverse(Ascending(GetBook(s, side))) ELSE Ascending(GetBook(s, side))

IdsAt(side, price, q) == [i \in 1 .. Len(q) |-> OrderIdNew(Prefix, side, price, q[i])]

\* StoredOrders::next until exhaustion, over an unchanging storage
RECURSIVE StoredOrdersFrom(_, _, _)
StoredOrdersFrom(s, side, prices) ==
    IF prices = <<>> THEN <<>>
    ELSE IdsAt(side, Head(prices), GetPriceQueue(s, Head(prices)))
            \o StoredOrdersFrom(s, side, Tail(prices))

Orders(s, side) == StoredOrdersFrom(s, side, OrdersPrices(s, side))

---------------------------------------------------------------------------
(* Order events.  lib.rs 56, 87, 119-121 call order_events().push and      *)
(* consume; their implementation is not among the sources, and is modelled *)
(* from the specification, section 4.2.                                    *)

EventsOf(s, id) == IF id \in DOMAIN s.events THEN s.events[id] ELSE <<>>

EventsPush(s, id, event) ==
    [s EXCEPT !.events =
        [k \in (DOMAIN s.events) \cup {id} |->
            IF k = id THEN Append(EventsOf(s, id), event) ELSE s.events[k]]]

RECURSIVE DropFirst(_, _)
DropFirst(q, n) == IF n = 0 \/ q = <<>> THEN q ELSE DropFirst(Tail(q), n - 1)

\* the order's size record is zero: it was filled completely
FullyFilled(s, id) ==
    /\ WithAttrKey(id, ORDER_ATTR_KEY_SIZE) \in DOMAIN s.recs
    /\ s.recs[WithAttrKey(id, ORDER_ATTR_KEY_SIZE)].v = 0

SetEvents(s, id, rest) ==
    [s EXCEPT !.events =
        IF rest = <<>> THEN [k \in (DOMAIN s.events) \ {id} |-> s.events[k]]
        ELSE [k \in (DOMAIN s.events) \cup {id} |-> IF k = id THEN rest ELSE s.events[k]]]

\* an order left with no events and no size is cleaned up
CleanUp(s, id) ==
    IF EventsOf(s, id) = <<>> /\ FullyFilled(s, id) THEN StorageRemoveOrder(s, id) ELSE s

\* consume up to count events of one order
EventsConsume(s, id, count) == CleanUp(SetEvents(s, id, DropFirst(EventsOf(s, id), count)), id)

---------------------------------------------------------------------------
(* Token: test-token/src/lib.rs 29-59 *)

Balance(s, token, id) == s.bal[token][id]

I128Fits(x) == I128Min <= x /\ x <= I128Max

Panic(s) == [s EXCEPT !.panic = TRUE]

\* a transfer that debits the sender and credits nobody
TokenTransferNoCredit(s, token, from, to, amount) ==
    IF s.panic THEN s
    ELSE IF from \notin s.auth THEN Panic(s)
    ELSE IF Balance(s, token, from) < amount THEN Panic(s)
    ELSE [s EXCEPT !.bal[token][from] = @ - amount]

\* from.require_auth(), the balance check, then the two writes; i128 arithmetic
\* is overflow-checked in both build profiles
TokenTransfer(s, token, from, to, amount) ==
    IF s.panic THEN s
    ELSE IF from \notin s.auth THEN Panic(s)
    ELSE IF Balance(s, token, from) < amount THEN Panic(s)
    ELSE IF ~I128Fits(Balance(s, token, from) - amount)
              \/ ~I128Fits(Balance(s, token, to) + amount) THEN Panic(s)
    ELSE [s EXCEPT !.bal[token] =
            [[@ EXCEPT ![from] = Balance(s, token, from) - amount]
                EXCEPT ![to] = Balance(s, token, to) + amount]]

---------------------------------------------------------------------------
(* Quote arithmetic: dex-market/src/lib.rs 263-268 *)

\* `as i128`
AsI128(u) == IF u > I128Max THEN u - U128Mod ELSE u

\* U96F32::from_num(base_amount), as bits, wrapped
FromNumBits(base_amount) == (base_amount * FracUnit) % U128Mod

\* price * U96F32::from_num(base_amount), as bits, before wrapping
MulWide(price, base_amount) == (price * FromNumBits(base_amount)) \div FracUnit

\* the fixed-point conversions and operators check their range with debug
\* assertions: they panic in a build with them and wrap in a build without
QuoteAmountPanics(debug, price, base_amount) ==
    debug /\ (base_amount >= FixedIntMod \/ MulWide(price, base_amount) >= U128Mod)

QuoteAmount(price, base_amount) == (MulWide(price, base_amount) % U128Mod) \div FracUnit

---------------------------------------------------------------------------
(* The call in progress.  A transaction state s holds the storage (book,   *)
(* queue, recs, events, bal), who authorized the call (auth), whether it   *)
(* panicked, the locals of OrderBook::place_order (amount_to_post, stop)   *)
(* and of the settlement closure (quote_consumed, base_consumed,           *)
(* is_self_trade), and what the call did: the orders the walk read (seen), *)
(* the fills it made (fills), the entries the closure was given (given)    *)
(* and what its two transfers moved (paid).                                *)

Begin(caller) ==
    [book |-> book, queue |-> queue, recs |-> recs, events |-> events, bal |-> bal,
     auth |-> {caller, Contract}, panic |-> FALSE,
     amount_to_post |-> 0, stop |-> FALSE,
     quote_consumed |-> 0, base_consumed |-> 0, is_self_trade |-> FALSE,
     seen |-> <<>>, fills |-> <<>>, given |-> <<>>, paid |-> <<>>]

BaseOf(info) == info.base_token
QuoteOf(info) == info.quote_token

\* lib.rs 132-138
Accumulate(s, params, entry) ==
    [s EXCEPT !.is_self_trade = @ \/ entry.details = params.owner,
              !.base_consumed = @ + AsI128(entry.size),
              !.quote_consumed = @ + QuoteAmount(entry.price, entry.size)]

\* lib.rs 140-168
Pay(s, info, params, entry) ==
    IF IdSide(entry.id) = "Bid"
    THEN TokenTransfer(
             TokenTransfer(s, BaseOf(info), Contract, entry.details, AsI128(entry.size)),
             QuoteOf(info), Contract, params.owner, QuoteAmount(entry.price, entry.size))
    ELSE TokenTransfer(
             TokenTransfer(s, QuoteOf(info), Contract, entry.details,
                           QuoteAmount(entry.price, entry.size)),
             BaseOf(info), Contract, params.owner, AsI128(entry.size))

\* a closure that consumes none of the maker's events
ConsumeMakerNone(s, entry) == IF s.panic THEN s ELSE EventsConsume(s, entry.id, 0)

\* a closure that leaves the maker's events where they are
ConsumeMakerNever(s, entry) == s

\* lib.rs 174-177
ConsumeMaker(s, entry) == IF s.panic THEN s ELSE EventsConsume(s, entry.id, 1)

\* what the balances of the maker and of the taker gained between s0 and s
NotePaid(s0, s, info, params, entry) ==
    [s EXCEPT !.paid = Append(@,
        [maker_base |-> Balance(s, BaseOf(info), entry.details)
                            - Balance(s0, BaseOf(info), entry.details),
         maker_quote |-> Balance(s, QuoteOf(info), entry.details)
                            - Balance(s0, QuoteOf(info), entry.details),
         taker_base |-> Balance(s, BaseOf(info), params.owner)
                            - Balance(s0, BaseOf(info), params.owner),
         taker_quote |-> Balance(s, QuoteOf(info), params.owner)
                            - Balance(s0, QuoteOf(info), params.owner)])]

Settle(s, info, params, entry) ==
    IF ~I128Fits(s.base_consumed) \/ ~I128Fits(s.quote_consumed) THEN Panic(s)
    ELSE ConsumeMaker(NotePaid(s, Pay(s, info, params, entry), info, params, entry), entry)

\* the entry the closure is called with
NoteGiven(s, entry) == [s EXCEPT !.given = Append(@, entry)]

\* the closure given to OrderBook::place_order: dex-market/src/lib.rs 131-178
OnMatch(s, info, debug, params, entry) ==
    IF QuoteAmountPanics(debug, entry.price, entry.size) THEN Panic(NoteGiven(s, entry))
    ELSE Settle(Accumulate(NoteGiven(s, entry), params, entry), info, params, entry)

\* a gate that lets no order through
IsMatchingNever(params, order) == FALSE

\* a gate that lets every order through
IsMatchingAlways(params, order) == TRUE

\* lib.rs 64-67
IsMatching(params, order) ==
    IF params.side = "Bid" THEN order.price <= params.price ELSE order.price >= params.price

\* lib.rs 73-83: the size matched
MatchedSize(s, order) ==
    IF order.size <= s.amount_to_post THEN order.size ELSE s.amount_to_post

\* lib.rs 73-87: the maker's new size, the taker's remainder, the event
ApplyMatch(s, order) ==
    EventsPush(
        [StorageModifyOrder(s, order.id,
             IF order.size <= s.amount_to_post THEN 0 ELSE order.size - s.amount_to_post)
         EXCEPT !.amount_to_post = @ - MatchedSize(s, order)],
        order.id, MatchedSize(s, order))

\* what the walk saw and filled, for the record
Note(s, order, matching) ==
    [s EXCEPT !.seen = Append(@, [id |-> order.id, price |-> order.price,
                                  matching |-> matching])]

NoteFill(s, order, matched_size) ==
    [Note(s, order, TRUE) EXCEPT
        !.fills = Append(@, [id |-> order.id, price |-> order.price, size |-> matched_size,
                             before |-> order.size, after |-> GetOrder(s, order.id).size,
                             owner |-> order.details])]

\* a loop that goes on when the taker is used up
BreakNever(s) == s

\* lib.rs 94-96
BreakIfDone(s) ==
    IF s.panic THEN s ELSE IF s.amount_to_post = 0 THEN [s EXCEPT !.stop = TRUE] ELSE s

\* a loop that hands the closure the maker's entry as read, with its whole size
MatchOrderWholeSize(s, info, debug, params, order) ==
    IF order.panic THEN Panic(s)
    ELSE IF ~order.some THEN s
    ELSE IF ~IsMatching(params, order) THEN [Note(s, order, FALSE) EXCEPT !.stop = TRUE]
    ELSE BreakIfDone(
             OnMatch(NoteFill(ApplyMatch(s, order), order, MatchedSize(s, order)),
                     info, debug, params, order))

\* lib.rs 60-96, for an order that exists
MatchOrder(s, info, debug, params, order) ==
    IF order.panic THEN Panic(s)
    ELSE IF ~order.some THEN s
    ELSE IF ~IsMatching(params, order) THEN [Note(s, order, FALSE) EXCEPT !.stop = TRUE]
    ELSE BreakIfDone(
             OnMatch(NoteFill(ApplyMatch(s, order), order, MatchedSize(s, order)),
                     info, debug, params, [order EXCEPT !.size = MatchedSize(s, order)]))

\* one turn of the loop of OrderBook::place_order: lib.rs 59-97
MatchOne(s, info, debug, params, order_id) ==
    MatchOrder(s, info, debug, params, GetOrder(s, order_id))

Opposite(side) == IF side = "Bid" THEN "Ask" ELSE "Bid"

\* StoredOrders::next (storage.rs 285-321) driving the loop: the queue of a
\* price is read when the walk reaches that price
RECURSIVE WalkQueue(_, _, _, _, _, _)
WalkQueue(s, info, debug, params, price, q) ==
    IF s.panic \/ s.stop \/ q = <<>> THEN s
    ELSE WalkQueue(
             MatchOne(s, info, debug, params,
                      OrderIdNew(Prefix, Opposite(params.side), price, Head(q))),
             info, debug, params, price, Tail(q))

RECURSIVE WalkPrices(_, _, _, _, _)
WalkPrices(s, info, debug, params, prices) ==
    IF s.panic \/ s.stop \/ prices = <<>> THEN s
    ELSE WalkPrices(
             WalkQueue(s, info, debug, params, Head(prices), GetPriceQueue(s, Head(prices))),
             info, debug, params, Tail(prices))

NotPosted(s) == [s |-> s, posted_id |-> <<>>, posted_size |-> s.amount_to_post]

Posted(placed, size) == [s |-> placed.s, posted_id |-> <<placed.id>>, posted_size |-> size]

\* lib.rs 99-112
PostResidual(s, params) ==
    IF s.panic \/ s.amount_to_post = 0 THEN NotPosted(s)
    ELSE Posted(StoragePlaceOrder(s, params.side, params.price, s.amount_to_post,
                                  params.owner),
                s.amount_to_post)

\* OrderBook::place_order: lib.rs 50-113.  The result holds the state and the
\* summary (posted_id as a sequence of at most one id).
EnginePlaceOrder(s, info, debug, params) ==
    PostResidual(
        WalkPrices([s EXCEPT !.amount_to_post = params.size], info, debug, params,
                   OrdersPrices(s, Opposite(params.side))),
        params)

\* OrderBook::cancel_order: lib.rs 46-48
EngineCancelOrder(s, id) == StorageRemoveOrder(s, id)

---------------------------------------------------------------------------
(* DexMarketContract: dex-market/src/lib.rs 80-249.  The result of a call  *)
(* holds what it returned (result) and the state it ended in (s).          *)

\* the escrow taken on entry: lib.rs 107-126
Escrow(s, info, params) ==
    IF params.side = "Bid"
    THEN TokenTransfer(s, QuoteOf(info), params.owner, Contract,
                       QuoteAmount(params.price, params.size))
    ELSE TokenTransfer(s, BaseOf(info), params.owner, Contract, AsI128(params.size))

\* lib.rs 187-189
ReturnQuote(s, params, posted_size) ==
    QuoteAmount(params.price, params.size) - s.quote_consumed
        - QuoteAmount(params.price, posted_size)

\* lib.rs 199-200
ReturnBase(s, params, posted_size) == AsI128(params.size - posted_size) - s.base_consumed

\* the return of the unnecessary tokens: lib.rs 184-208
Refund(s, info, debug, params, posted_size) ==
    IF params.side = "Bid"
    THEN IF QuoteAmountPanics(debug, params.price, posted_size)
               \/ ~I128Fits(QuoteAmount(params.price, params.size) - s.quote_consumed)
               \/ ~I128Fits(ReturnQuote(s, params, posted_size))
         THEN Panic(s)
         ELSE TokenTransfer(s, QuoteOf(info), Contract, params.owner,
                            ReturnQuote(s, params, posted_size))
    ELSE IF ~I128Fits(ReturnBase(s, params, posted_size)) THEN Panic(s)
         ELSE TokenTransfer(s, BaseOf(info), Contract, params.owner,
                            ReturnBase(s, params, posted_size))

Failed(s, result) ==
    [s |-> s, result |-> result, returned |-> FALSE, posted_id |-> <<>>, posted_size |-> 0]

Returned(e, s, result) ==
    [s |-> s, result |-> result, returned |-> TRUE, posted_id |-> e.posted_id,
     posted_size |-> e.posted_size]

\* lib.rs 210
AfterRefund(e, s) == IF s.panic THEN Returned(e, s, "panic") ELSE Returned(e, s, "Ok")

\* lib.rs 180-208
AfterEngine(e, info, debug, params) ==
    IF e.s.panic THEN Failed(e.s, "panic")
    ELSE IF e.s.is_self_trade THEN Returned(e, e.s, "CannotSelfTrade")
    ELSE AfterRefund(e, Refund(e.s, info, debug, params, e.posted_size))

\* lib.rs 128-131
AfterEscrow(s, info, debug, params) ==
    IF s.panic THEN Failed(s, "panic")
    ELSE AfterEngine(EnginePlaceOrder(s, info, debug, params), info, debug, params)

\* a place_order without the size check
PlaceOrderNoSizeCheck(s, info, debug, params) ==
    IF params.owner \notin s.auth THEN Failed(s, "panic")
    ELSE IF QuoteAmountPanics(debug, params.price, params.size) THEN Failed(s, "panic")
    ELSE AfterEscrow(Escrow(s, info, params), info, debug, params)

\* place_order: lib.rs 86-211
PlaceOrder(s, info, debug, params) ==
    IF params.size < info.base_min_order_size THEN Failed(s, "InvalidOrderSize")
    ELSE IF params.owner \notin s.auth THEN Failed(s, "panic")
    ELSE IF QuoteAmountPanics(debug, params.price, params.size) THEN Failed(s, "panic")
    ELSE AfterEscrow(Escrow(s, info, params), info, debug, params)

\* lib.rs 227-245
ReturnCollateral(s, info, order_detail) ==
    IF IdSide(order_detail.id) = "Ask"
    THEN TokenTransfer(s, BaseOf(info), Contract, order_detail.details,
                       AsI128(order_detail.size))
    ELSE TokenTransfer(s, QuoteOf(info), Contract, order_detail.details,
                       QuoteAmount(order_detail.price, order_detail.size))

\* lib.rs 247
AfterCollateral(s, order) ==
    IF s.panic THEN [s |-> s, result |-> "panic"]
    ELSE [s |-> EngineCancelOrder(s, order), result |-> "Ok"]

\* a cancel_order that does not ask for the owner's authorization
CancelFoundNoAuth(s, info, debug, order, order_detail) ==
    IF order_detail.panic THEN [s |-> s, result |-> "panic"]
    ELSE IF ~order_detail.some THEN [s |-> s, result |-> "Absent"]
    ELSE IF IdSide(order_detail.id) = "Bid"
              /\ QuoteAmountPanics(debug, order_detail.price, order_detail.size)
         THEN [s |-> s, result |-> "panic"]
    ELSE AfterCollateral(ReturnCollateral(s, info, order_detail), order)

\* lib.rs 220-248
CancelFound(s, info, debug, order, order_detail) ==
    IF order_detail.panic THEN [s |-> s, result |-> "panic"]
    ELSE IF ~order_detail.some THEN [s |-> s, result |-> "Absent"]
    ELSE IF order_detail.details \notin s.auth THEN [s |-> s, result |-> "panic"]
    ELSE IF IdSide(order_detail.id) = "Bid"
              /\ QuoteAmountPanics(debug, order_detail.price, order_detail.size)
         THEN [s |-> s, result |-> "panic"]
    ELSE AfterCollateral(ReturnCollateral(s, info, order_detail), order)

\* cancel_order: lib.rs 214-249
CancelOrder(s, info, debug, order) == CancelFound(s, info, debug, order, GetOrder(s, order))

\* init: lib.rs 81-83
MarketInitInfo(info) == info

\* the host ends a call that returned Err or panicked by rolling back what it
\* wrote (specification, section 4.5, failure semantics)
HostEnd(s0, r) == IF r.result \in {"Ok", "Absent"} THEN r.s ELSE s0

---------------------------------------------------------------------------
(* The state machine of the market: one action per entry point *)

RECURSIVE SumLen(_, _)
SumLen(f, K) ==
    IF K = {} THEN 0
    ELSE LET k == CHOOSE x \in K : TRUE IN Len(f[k]) + SumLen(f, K \ {k})

NumQueued(q) == SumLen(q, DOMAIN q)

InBounds(s, posted_id) ==
    /\ NumQueued(s.queue) <= MaxOrders
    /\ \A i \in 1 .. Len(posted_id) : IdLocal(posted_id[i]) <= MaxLocalId

Commit(s) ==
    /\ bal' = s.bal
    /\ book' = s.book
    /\ queue' = s.queue
    /\ recs' = s.recs
    /\ events' = s.events

InfoChoices ==
    {[base_token |-> BaseToken, quote_token |-> QuoteToken, base_min_order_size |-> m] :
        m \in MinSizes}

ParamChoices == [side : Sides, price : Prices, size : Sizes, owner : Users]

OrderIds == {OrderIdNew(Prefix, side, price, lid) : side \in Sides, price \in Prices,
                                                    lid \in LocalIds}

\* the call place_order(params), authorized by its owner, from the current state
PlaceCall(params) == PlaceOrder(Begin(params.owner), market_info, debug_assertions, params)

\* the call cancel_order(order), authorized by caller, from the current state
CancelCall(order, caller) == CancelOrder(Begin(caller), market_info, debug_assertions, order)

MarketInit(info) ==
    /\ market_info' = MarketInitInfo(info)
    /\ UNCHANGED <<debug_assertions, bal, book, queue, recs, events, live, last>>

MarketPlaceOrder(params) ==
    LET r == PlaceCall(params)
    IN  /\ r.result = "Ok" => InBounds(r.s, r.posted_id)
        /\ Commit(HostEnd(Begin(params.owner), r))
        /\ UNCHANGED <<debug_assertions, market_info, live, last>>

MarketCancelOrder(order, caller) ==
    /\ Commit(HostEnd(Begin(caller), CancelCall(order, caller)))
    /\ UNCHANGED <<debug_assertions, market_info, live, last>>

\* what the users hold at the start
InitBase == [u0 |-> 2, u1 |-> 0, market |-> 0]
InitQuote == [u0 |-> 1, u1 |-> 1, market |-> 0]

NoCall == [op |-> "none"]

Init ==
    /\ debug_assertions \in BOOLEAN
    /\ market_info \in InfoChoices
    /\ bal = [t \in Tokens |-> IF t = BaseToken THEN InitBase ELSE InitQuote]
    /\ book = [side \in Sides |-> {}]
    /\ queue = <<>>
    /\ recs = <<>>
    /\ events = <<>>
    /\ live = <<>>
    /\ last = NoCall

Next ==
    \/ \E info \in InfoChoices : MarketInit(info)
    \/ \E params \in ParamChoices : MarketPlaceOrder(params)
    \/ \E order \in OrderIds, caller \in Users : MarketCancelOrder(order, caller)

Spec == Init /\ [][Next]_vars

---------------------------------------------------------------------------
(* The storage on its own, as its test contract drives it (storage.rs      *)
(* 396-449): place_order on either side, then orders(side) taken from the  *)
(* top and removed, one at a time.                                         *)

Stored == [book |-> book, queue |-> queue, recs |-> recs]

SetStored(s) ==
    /\ book' = s.book
    /\ queue' = s.queue
    /\ recs' = s.recs

StoragePlaced(placed, side, price, size, details) ==
    /\ SetStored(placed.s)
    /\ live' = Append(live, [id |-> placed.id, side |-> side, price |-> price,
                             size |-> size, details |-> details])
    /\ last' = [op |-> "place"]

\* place_order(side, price, size, details), before anything was taken
StoragePlace(side, price, size, details) ==
    /\ last.op # "pop"
    /\ Len(live) < MaxOrders
    /\ StoragePlaced(StoragePlaceOrder(Stored, side, price, size, details),
                     side, price, size, details)
    /\ UNCHANGED <<debug_assertions, market_info, bal, events>>

Without(orders, id) == SelectSeq(orders, LAMBDA o : o.id # id)

StoragePopped(side, id) ==
    /\ SetStored(StorageRemoveOrder(Stored, id))
    /\ last' = [op |-> "pop", side |-> side, id |-> id, got |-> GetOrder(Stored, id),
                live |-> live]
    /\ live' = Without(live, id)

\* orders(side).next(), get_order of what it gave, and remove_order of it
StoragePop(side) ==
    /\ Orders(Stored, side) # <<>>
    /\ StoragePopped(side, Head(Orders(Stored, side)))
    /\ UNCHANGED <<debug_assertions, market_info, bal, events>>

StorageNext ==
    \/ \E side \in Sides, price \in Prices, size \in Sizes, details \in Users :
            StoragePlace(side, price, size, details)
    \/ \E side \in Sides : StoragePop(side)

StorageSpec == Init /\ [][StorageNext]_vars

---------------------------------------------------------------------------
(* Properties *)

RECURSIVE SumBal(_, _)
SumBal(b, A) ==
    IF A = {} THEN 0
    ELSE LET a == CHOOSE x \in A : TRUE IN b[a] + SumBal(b, A \ {a})

InitBal == [t \in Tokens |-> IF t = BaseToken THEN InitBase ELSE InitQuote]

\* the persistent state a call leaves
StorageOf(s) == <<s.bal, s.book, s.queue, s.recs, s.events>>

RECURSIVE SumSizes(_)
SumSizes(entries) ==
    IF entries = <<>> THEN 0 ELSE Head(entries).size + SumSizes(Tail(entries))

RECURSIVE SumQuote(_)
SumQuote(entries) ==
    IF entries = <<>> THEN 0
    ELSE QuoteAmount(Head(entries).price, Head(entries).size) + SumQuote(Tail(entries))

\* C1: token conservation.  In every state reached by place_order and
\* cancel_order calls, successful or reverted, the balances of the owners and
\* of the contract add up to the initial supply, for the base token and for
\* the quote token.
C1_TokenConservation ==
    \A t \in Tokens : SumBal(bal[t], Addresses) = SumBal(InitBal[t], Addresses)

\* tokens of both kinds have moved into the contract and out of it again
C1_Witness ==
    /\ bal[BaseToken][Contract] > 0
    /\ bal[QuoteToken][Contract] > 0
    /\ bal[BaseToken]["u1"] > InitBase["u1"]

\* C2: no negative balances.  In every state reached by place_order and
\* cancel_order calls no owner and not the contract holds a negative amount of
\* the base or of the quote token.
C2_NoNegativeBalance ==
    \A t \in Tokens : \A a \in Addresses : bal[t][a] >= 0

SelfTradeFilled(r, params) ==
    \E i \in 1 .. Len(r.s.fills) : r.s.fills[i].owner = params.owner

C3_Holds(params, r) ==
    SelfTradeFilled(r, params) =>
        /\ r.result = "CannotSelfTrade"
        /\ StorageOf(HostEnd(Begin(params.owner), r)) = <<bal, book, queue, recs, events>>

\* C3: self-trade rejection.  A place_order that fills a resting order of the
\* taker's own fails with CannotSelfTrade, and the balances and the order book
\* (price sets, queues, sizes, details, events) it leaves are those it found.
C3_SelfTradeRejected ==
    \A params \in ParamChoices : C3_Holds(params, PlaceCall(params))

C3_Case(params, r) ==
    /\ SelfTradeFilled(r, params)
    /\ r.result = "CannotSelfTrade"
    /\ r.s.bal # bal
    /\ r.s.recs # recs

\* a call filled the taker's own order, moved tokens, and was rejected
C3_Witness ==
    \E params \in ParamChoices : C3_Case(params, PlaceCall(params))

C4_Holds(params, r) ==
    /\ params.size < market_info.base_min_order_size =>
            /\ r.result = "InvalidOrderSize"
            /\ r.s = Begin(params.owner)
    /\ r.result = "Ok" /\ r.posted_id # <<>> =>
            params.size >= market_info.base_min_order_size

\* C4: minimum size at admission.  A place_order whose params.size is below
\* base_min_order_size fails with InvalidOrderSize, having transferred nothing
\* and written nothing to the book; so every order that is posted was asked
\* for with a size of at least base_min_order_size.
C4_MinimumSizeAtAdmission ==
    \A params \in ParamChoices : C4_Holds(params, PlaceCall(params))

C4_Case(params, r) ==
    /\ params.size < market_info.base_min_order_size
    /\ bal[IF params.side = "Bid" THEN QuoteToken ELSE BaseToken][params.owner] >= params.size
    /\ book[Opposite(params.side)] # {}
    /\ r.result = "InvalidOrderSize"

\* an order below the minimum, which its owner could pay for and which had
\* orders to match, was refused
C4_Witness ==
    \E params \in ParamChoices : C4_Case(params, PlaceCall(params))

C5_Holds(params, r) ==
    r.returned =>
        /\ Len(r.s.given) = Len(r.s.fills)
        /\ r.posted_size + SumSizes(r.s.given) = params.size
        /\ \A i \in 1 .. Len(r.s.given) :
                r.s.given[i].size = r.s.fills[i].before - r.s.fills[i].after

\* C5: size accounting.  For every engine place_order that returns, the
\* posted_size of its summary plus the sizes given to the callback add up to
\* params.size, and each size the callback is given is the amount by which
\* that fill reduced the maker's stored size.
C5_SizeAccounting ==
    \A params \in ParamChoices : C5_Holds(params, PlaceCall(params))

C5_Case(params, r) ==
    /\ r.returned
    /\ r.posted_size > 0
    /\ r.s.fills # <<>>

\* a call filled a maker and posted what was left of the taker
C5_Witness ==
    \E params \in ParamChoices : C5_Case(params, PlaceCall(params))

C6_Holds(params, r) ==
    /\ \A i \in 1 .. Len(r.s.fills) :
            IF params.side = "Bid" THEN r.s.fills[i].price <= params.price
            ELSE r.s.fills[i].price >= params.price
    /\ \A i \in 1 .. Len(r.s.seen) : ~r.s.seen[i].matching => i = Len(r.s.seen)

\* C6: price gate.  No fill of a taker Bid is at a maker price above the
\* taker's limit and no fill of a taker Ask at a maker price below it, and the
\* first resting order that fails the gate is the last one the walk reads.
C6_PriceGate ==
    \A params \in ParamChoices : C6_Holds(params, PlaceCall(params))

C6_Case(params, r) ==
    /\ r.s.fills # <<>>
    /\ \E i \in 1 .. Len(r.s.seen) : ~r.s.seen[i].matching

\* a walk filled an order and stopped at the next, which failed the gate
C6_Witness ==
    \E params \in ParamChoices : C6_Case(params, PlaceCall(params))

\* x comes before y on their side of the book
Before(x, y) ==
    \/ IF IdSide(x) = "Bid" THEN IdPrice(x) > IdPrice(y) ELSE IdPrice(x) < IdPrice(y)
    \/ IdPrice(x) = IdPrice(y) /\ IdLocal(x) < IdLocal(y)

\* the orders resting on a side in the current state
Resting(side) ==
    {id \in OrderIds : IdSide(id) = side /\ GetOrder(Stored, id).some}

C7_Holds(params, r) ==
    /\ \A i \in 1 .. Len(r.s.fills) : \A j \in 1 .. Len(r.s.fills) :
            i < j => Before(r.s.fills[i].id, r.s.fills[j].id)
    /\ \A j \in 1 .. Len(r.s.fills) : \A y \in Resting(Opposite(params.side)) :
            Before(y, r.s.fills[j].id) =>
                \E i \in 1 .. (j - 1) : r.s.fills[i].id = y /\ r.s.fills[i].after = 0

\* C7: price-time priority of fills.  The fills of one place_order come in
\* strict price-time order (best opposite price first, ascending local id
\* within a price), and an order is filled only after every order that rested
\* before it on its side has been filled down to zero.
C7_PriceTimePriority ==
    \A params \in ParamChoices : C7_Holds(params, PlaceCall(params))

C7_Case(params, r) ==
    /\ r.s.fills # <<>>
    /\ Cardinality(Resting(Opposite(params.side))) >= 2

\* a call filled an order of a side on which two orders rested
C7_Witness ==
    \E params \in ParamChoices : C7_Case(params, PlaceCall(params))

\* the first of the orders of a side in price-time priority, as they were placed
BestOf(orders, side, i) ==
    /\ orders[i].side = side
    /\ \A j \in 1 .. Len(orders) :
            (j # i /\ orders[j].side = side) =>
                \/ IF side = "Bid" THEN orders[i].price > orders[j].price
                   ELSE orders[i].price < orders[j].price
                \/ orders[i].price = orders[j].price /\ i < j

\* C8: iteration priority of the storage.  After place_order calls on both
\* sides, each order taken from the top of orders(side) is the first in price
\* priority (descending price for Bid, ascending for Ask, first placed first
\* within a price) of the orders of that side not yet removed, and get_order
\* of its id gives the size it was placed with.
C8_IterationPriority ==
    last.op = "pop" =>
        \E i \in 1 .. Len(last.live) :
            /\ BestOf(last.live, last.side, i)
            /\ last.live[i].id = last.id
            /\ last.got.some
            /\ last.got.size = last.live[i].size

C9_Holds(params, r) ==
    r.result = "Ok" =>
        \A i \in 1 .. Len(r.s.paid) :
            IF IdSide(r.s.fills[i].id) = "Ask"
            THEN /\ r.s.paid[i].maker_quote
                        = QuoteAmount(r.s.fills[i].price, r.s.fills[i].size)
                 /\ r.s.paid[i].taker_base = r.s.fills[i].size
            ELSE /\ r.s.paid[i].maker_base = r.s.fills[i].size
                 /\ r.s.paid[i].taker_quote
                        = QuoteAmount(r.s.fills[i].price, r.s.fills[i].size)

\* C9: settlement at maker price.  For every fill of size f against a resting
\* order at price p of a successful place_order, a maker Ask receives
\* quote_amount(p, f) quote and the taker f base, and a maker Bid receives f
\* base and the taker quote_amount(p, f) quote.
C9_SettlementAtMakerPrice ==
    \A params \in ParamChoices : C9_Holds(params, PlaceCall(params))

C10_Holds(params, r) ==
    r.result = "Ok" =>
        IF params.side = "Bid"
        THEN bal[QuoteToken][params.owner] - r.s.bal[QuoteToken][params.owner]
                = SumQuote(r.s.fills) + QuoteAmount(params.price, r.posted_size)
        ELSE bal[BaseToken][params.owner] - r.s.bal[BaseToken][params.owner]
                = params.size

\* C10: escrow reservation.  A successful place_order of a Bid lowers its
\* owner's quote balance by the quote_amount of each fill at the maker's price
\* plus quote_amount(params.price, posted_size); a successful place_order of
\* an Ask lowers its owner's base balance by params.size.
C10_EscrowReservation ==
    \A params \in ParamChoices : C10_Holds(params, PlaceCall(params))

---------------------------------------------------------------------------
(* Properties of cancel_order and of the book *)

\* the call that follows a successful call which left the state s
NextCall(s, caller) ==
    [s EXCEPT !.auth = {caller, Contract}, !.panic = FALSE,
              !.amount_to_post = 0, !.stop = FALSE,
              !.quote_consumed = 0, !.base_consumed = 0, !.is_self_trade = FALSE,
              !.seen = <<>>, !.fills = <<>>, !.given = <<>>, !.paid = <<>>]

\* the token an order of a side is collateralised in, and how much for a size
CollateralToken(side) == IF side = "Ask" THEN BaseToken ELSE QuoteToken

Collateral(side, price, size) == IF side = "Ask" THEN size ELSE QuoteAmount(price, size)

\* the ids orders(side) gives in the state s
ListedIds(s, side) == {Orders(s, side)[i] : i \in 1 .. Len(Orders(s, side))}

C11_Returned(order, got, c) ==
    /\ c.result = "Ok"
    /\ c.s.bal[CollateralToken(IdSide(order))][got.details]
            - bal[CollateralToken(IdSide(order))][got.details]
          = Collateral(IdSide(order), got.price, got.size)
    /\ ~GetOrder(c.s, order).some
    /\ order \notin ListedIds(c.s, IdSide(order))

C11_CancelHolds(order, got) ==
    got.some => C11_Returned(order, got, CancelCall(order, got.details))

C11_Restored(c) ==
    /\ c.result = "Ok"
    /\ StorageOf(c.s) = <<bal, book, queue, recs, events>>

C11_PlaceCancelHolds(params, r) ==
    (r.result = "Ok" /\ r.s.fills = <<>> /\ r.posted_id # <<>>) =>
        C11_Restored(CancelOrder(NextCall(r.s, params.owner), market_info,
                                 debug_assertions, r.posted_id[1]))

\* C11: cancel returns escrow.  Cancelling a resting order, authorized by its
\* owner, succeeds, raises the owner's balance by the collateral of the
\* order's remaining size (the size in base for an Ask, quote_amount(price,
\* size) in quote for a Bid) and removes the order from the book; and a
\* place_order that matched nothing followed by the cancel of the order it
\* posted leaves every balance and the book as they were before the placement.
C11_CancelReturnsEscrow ==
    /\ \A order \in OrderIds : C11_CancelHolds(order, GetOrder(Stored, order))
    /\ \A params \in ParamChoices : C11_PlaceCancelHolds(params, PlaceCall(params))

\* the state a call leaves in storage: what it wrote if it returned, what it
\* found if it failed
Left(s0, c) == StorageOf(HostEnd(s0, c))

C12_Unchanged(s0, c) == Left(s0, c) = StorageOf(s0)

\* cancel_order(order) by caller, after a place_order that returned Ok
C12_AfterPlace(order, r, caller) ==
    r.result = "Ok" =>
        C12_Unchanged(r.s, CancelOrder(NextCall(r.s, caller), market_info,
                                       debug_assertions, order))

\* cancel_order(order) again, at once or after one place_order, when the first
\* cancel_order(order) removed the order
C12_AfterCancel(order, c) ==
    c.result = "Ok" =>
        /\ \A caller \in Users :
                C12_Unchanged(c.s, CancelOrder(NextCall(c.s, caller), market_info,
                                               debug_assertions, order))
        /\ \A params \in ParamChoices : \A caller \in Users :
                C12_AfterPlace(order,
                               PlaceOrder(NextCall(c.s, params.owner), market_info,
                                          debug_assertions, params),
                               caller)

C12_Holds(order, got) ==
    got.some => C12_AfterCancel(order, CancelCall(order, got.details))

\* C12: cancel idempotence.  Once cancel_order has removed an order, a later
\* cancel_order with the same id, whoever authorizes it and whether or not a
\* place_order came in between, leaves the order book and all balances as it
\* found them.
C12_CancelIdempotent ==
    \A order \in OrderIds : C12_Holds(order, GetOrder(Stored, order))

\* the balances of the addresses in A are the same in s as now
SameBalances(s, token, A) == \A a \in A : s.bal[token][a] = bal[token][a]

C13_Released(order, got, caller, c) ==
    /\ got.some
    /\ got.details = caller
    /\ SameBalances(c.s, CollateralToken(IdSide(order)), Users \ {got.details})
    /\ SameBalances(c.s, CollateralToken(Opposite(IdSide(order))), Addresses)
    /\ c.s.bal[CollateralToken(IdSide(order))][got.details]
            - bal[CollateralToken(IdSide(order))][got.details]
          = bal[CollateralToken(IdSide(order))][Contract]
                - c.s.bal[CollateralToken(IdSide(order))][Contract]

C13_Holds(order, got, caller, c) ==
    /\ (got.some /\ got.details # caller) =>
            (c.result = "panic" /\ StorageOf(c.s) = <<bal, book, queue, recs, events>>)
    /\ StorageOf(c.s) # <<bal, book, queue, recs, events>> =>
            C13_Released(order, got, caller, c)

\* C13: owner-only cancel.  A cancel_order of a resting order that its stored
\* owner has not authorized aborts, having written nothing to the book or to
\* the balances; a cancel_order that changes anything was authorized by the
\* stored owner, and what leaves the contract goes to that owner and to nobody
\* else.
C13_OwnerOnlyCancel ==
    \A order \in OrderIds : \A caller \in Users :
        C13_Holds(order, GetOrder(Stored, order), caller, CancelCall(order, caller))

C13_Case(got, caller, c) ==
    /\ got.some
    /\ got.details # caller
    /\ c.result = "panic"

\* somebody else than the owner tried to cancel a resting order
C13_Witness ==
    \E order \in OrderIds : \E caller \in Users :
        C13_Case(GetOrder(Stored, order), caller, CancelCall(order, caller))

\* the prices at which an order of a side rests
RestingPrices(side) == {IdPrice(id) : id \in Resting(side)}

\* C14: price-set / queue consistency.  In every state a successful operation
\* leaves, a price is in the price set of a side exactly when an order of
\* that side rests at that price, and a price queue is stored exactly for the
\* prices at which an order rests.
C14_PriceSetConsistent ==
    /\ \A side \in Sides : GetBook(Stored, side) = RestingPrices(side)
    /\ \A price \in Prices :
            (PriceQueueKey(price) \in DOMAIN queue) =>
                \E side \in Sides : \E p \in RestingPrices(side) :
                    PriceQueueKey(p) = PriceQueueKey(price)

\* the ids that may be in the book after the call r
IdsAfter(r) == OrderIds \cup {r.posted_id[i] : i \in 1 .. Len(r.posted_id)}

\* the order id is gone from the state s: get_order does not find it, its
\* details and its size are not stored, and an entry of its queue that holds
\* its local id is the entry of another order
Gone(s, id, others) ==
    /\ ~GetOrder(s, id).some
    /\ id \notin DOMAIN s.recs
    /\ WithAttrKey(id, ORDER_ATTR_KEY_SIZE) \notin DOMAIN s.recs
    /\ \A i \in 1 .. Len(GetPriceQueue(s, IdPrice(id))) :
            GetPriceQueue(s, IdPrice(id))[i] = IdLocal(id) =>
                \E o \in others :
                    /\ o # id
                    /\ IdLocal(o) = IdLocal(id)
                    /\ PriceQueueKey(IdPrice(o)) = PriceQueueKey(IdPrice(id))
                    /\ GetOrder(s, o).some

C15_Holds(params, r) ==
    r.result = "Ok" =>
        \A i \in 1 .. Len(r.s.fills) :
            r.s.fills[i].after = 0 => Gone(r.s, r.s.fills[i].id, IdsAfter(r))

\* C15: no zero-size resting order.  In every state a successful operation
\* leaves, every order get_order finds has a size above 0; and an order that
\* a place_order fills down to 0 is removed from the book (its details, its
\* size and its queue entry) when that place_order returns.
C15_NoZeroSizeOrder ==
    /\ \A id \in OrderIds : GetOrder(Stored, id).some => GetOrder(Stored, id).size > 0
    /\ \A params \in ParamChoices : C15_Holds(params, PlaceCall(params))

C15_Case(params, r) ==
    /\ r.result = "Ok"
    /\ \E i \in 1 .. Len(r.s.fills) :
            /\ r.s.fills[i].after = 0
            /\ GetPriceQueue(r.s, r.s.fills[i].price) # <<>>

\* a place_order filled a maker down to 0 and left other orders in its queue
C15_Witness ==
    \E params \in ParamChoices : C15_Case(params, PlaceCall(params))

\* an order other than id rests in the bucket (side, price) of id in the state s
BucketStays(s, id) ==
    \E o \in OrderIds :
        /\ o # id
        /\ IdSide(o) = IdSide(id)
        /\ IdPrice(o) = IdPrice(id)
        /\ GetOrder(s, o).some

C16_Fresh(order, r) ==
    (r.result = "Ok" /\ r.posted_id # <<>>) => IdLocal(r.posted_id[1]) > IdLocal(order)

\* the order was cancelled and its bucket is not empty: a place_order into that bucket
C16_AfterCancel(order, c) ==
    (c.result = "Ok" /\ BucketStays(c.s, order)) =>
        \A params \in ParamChoices :
            (params.side = IdSide(order) /\ params.price = IdPrice(order)) =>
                C16_Fresh(order, PlaceOrder(NextCall(c.s, params.owner), market_info,
                                            debug_assertions, params))

C16_Holds(order, got) ==
    got.some => C16_AfterCancel(order, CancelCall(order, got.details))

\* C16: local_id uniqueness.  When an order is removed from a bucket (side,
\* price) in which another order stays, the next order placed in that bucket
\* gets a local id above that of the removed order, so that the id of the
\* removed order is not given to another order while the bucket lives.
C16_LocalIdUnique ==
    \A order \in OrderIds : C16_Holds(order, GetOrder(Stored, order))

\* C17: MarketConfig is immutable.  Once init has stored the configuration,
\* no call of init, place_order or cancel_order changes the stored base
\* token, quote token or minimum order size.
C17_ConfigImmutable == [][market_info' = market_info]_vars

---------------------------------------------------------------------------
(* The OrderId codec on its own: OrderId::new of any prefix, side, price    *)
(* and local id (storage.rs 27-36; orders.rs 27-36 is the same code), and  *)
(* the keys the storage derives from it (storage.rs 54-70, 133-141).       *)

Prefixes == {"F1A0", "F1A1"}
\* every u64 price (scaled)
AllPrices == 0 .. 2 ^ PriceBits - 1

Encoded(prefix, side, price, lid) ==
    [op |-> "new", prefix |-> prefix, side |-> side, price |-> price, lid |-> lid,
     id |-> OrderIdNew(prefix, side, price, lid),
     size_key |-> WithAttrKey(OrderIdNew(prefix, side, price, lid), ORDER_ATTR_KEY_SIZE),
     queue_key |-> PriceQueueKey(price)]

CodecNew(prefix, side, price, lid) ==
    /\ last' = Encoded(prefix, side, price, lid)
    /\ UNCHANGED <<debug_assertions, market_info, bal, book, queue, recs, events, live>>

CodecNext ==
    \E prefix \in Prefixes, side \in Sides, price \in AllPrices, lid \in LocalIds :
        CodecNew(prefix, side, price, lid)

CodecSpec == Init /\ [][CodecNext]_vars

C18_Decodes(e) ==
    /\ IdSide(e.id) = e.side
    /\ IdPrice(e.id) = e.price
    /\ IdLocal(e.id) = e.lid

C18_Injective(e) ==
    \A prefix \in Prefixes, side \in Sides, price \in AllPrices, lid \in LocalIds :
        OrderIdNew(prefix, side, price, lid) = e.id =>
            /\ prefix = e.prefix
            /\ side = e.side
            /\ price = e.price
            /\ lid = e.lid

\* C18: OrderId codec round trip.  side(), price() and id() of
\* OrderId::new(prefix, side, price, local_id) are the side, the price and the
\* local id that were encoded, and an id built from other fields is another id.
C18_CodecRoundTrip ==
    last.op = "new" => (C18_Decodes(last) /\ C18_Injective(last))

\* an Ask id with a price whose top byte is not 0 and a local id that is not 0
C18_Witness ==
    /\ last.op = "new"
    /\ last.side = "Ask"
    /\ last.price >= HiUnit
    /\ last.lid > 0
    /\ C18_Decodes(last)

---------------------------------------------------------------------------
(* quote_amount on its own (dex-market/src/lib.rs 263-268): a price and    *)
(* two sizes, and what quote_amount gives for each size and for their sum. *)

\* sizes around 1, around 2^96 (scaled: FixedIntMod) and up to the last u128
QuoteSizes == {0, 1, 2, 3, FixedIntMod \div 2, FixedIntMod - 1, FixedIntMod, U128Mod - 1}

\* prices below, at and above 1.0, and the last u64
QuotePrices == {0, 1, 3, FracUnit, FracUnit + 2, 2 ^ PriceBits - 1}

\* what a call of quote_amount does: it panics, or it returns value
QuoteCall(debug, price, base_amount) ==
    [panic |-> QuoteAmountPanics(debug, price, base_amount),
     value |-> QuoteAmount(price, base_amount)]

QuoteOf3(debug, price, a, b) ==
    [op |-> "quote", price |-> price, a |-> a, b |-> b,
     qa |-> QuoteCall(debug, price, a),
     qb |-> QuoteCall(debug, price, b),
     qab |-> QuoteCall(debug, price, a + b)]

\* a + b is a u128
QuoteAmounts(price, a, b) ==
    /\ a + b < U128Mod
    /\ last' = QuoteOf3(debug_assertions, price, a, b)
    /\ UNCHANGED <<debug_assertions, market_info, bal, book, queue, recs, events, live>>

QuoteNext ==
    \E price \in QuotePrices, a \in QuoteSizes, b \in QuoteSizes : QuoteAmounts(price, a, b)

QuoteSpec == Init /\ [][QuoteNext]_vars

\* floor(price * size / 2^32), the price read as 32.32 fixed point
ExactQuote(price, size) == (price * size) \div FracUnit

C19_Exact(price, size, q) ==
    I128Fits(ExactQuote(price, size)) => (~q.panic /\ q.value = ExactQuote(price, size))

C19_Superadditive(price, a, b, qa, qb, qab) ==
    (/\ I128Fits(ExactQuote(price, a))
     /\ I128Fits(ExactQuote(price, b))
     /\ I128Fits(ExactQuote(price, a + b))) =>
        /\ ~qa.panic /\ ~qb.panic /\ ~qab.panic
        /\ qa.value + qb.value <= qab.value

C19_Holds(c) ==
    /\ C19_Exact(c.price, c.a, c.qa)
    /\ C19_Exact(c.price, c.b, c.qb)
    /\ C19_Exact(c.price, c.a + c.b, c.qab)
    /\ C19_Superadditive(c.price, c.a, c.b, c.qa, c.qb, c.qab)

\* C19: quote arithmetic.  For every price and size whose quote amount fits
\* an i128, quote_amount(price, size) = floor(price * size / 2^32), and
\* quote_amount(p, a) + quote_amount(p, b) <= quote_amount(p, a + b).
C19_QuoteArithmetic == last.op = "quote" => C19_Holds(last)

SideIds(side) == {id \in OrderIds : IdSide(id) = side}

\* what one side of the book holds: its PriceSet, the queue of each of its
\* prices, what orders(side) walks and what get_order gives for its ids
SideView(s, side) ==
    <<GetBook(s, side),
      [price \in GetBook(s, side) |-> GetPriceQueue(s, price)],
      Orders(s, side),
      [id \in SideIds(side) |-> GetOrder(s, id)]>>

C20_Isolated(s, t, side) == SideView(t, Opposite(side)) = SideView(s, Opposite(side))

C20_Place(s) ==
    \A side \in Sides, price \in Prices, size \in Sizes, details \in Users :
        C20_Isolated(s, StoragePlaceOrder(s, side, price, size, details).s, side)

C20_Modify(s) ==
    \A id \in OrderIds, size \in Sizes :
        GetOrder(s, id).some => C20_Isolated(s, StorageModifyOrder(s, id, size), IdSide(id))

C20_Remove(s) ==
    \A id \in OrderIds :
        GetOrder(s, id).some => C20_Isolated(s, StorageRemoveOrder(s, id), IdSide(id))

\* C20: side isolation.  A storage place_order, modify_order or remove_order
\* on an order of one side leaves the other side's PriceSet, its price
\* queues, orders(other side) and get_order of the other side's orders as
\* they were, also when both sides hold orders at the same price.
C20_SideIsolation == C20_Place(Stored) /\ C20_Modify(Stored) /\ C20_Remove(Stored)

C21_Resolves(s, side, price, q) ==
    \A i \in 1 .. Len(q) : GetOrder(s, OrderIdNew(Prefix, side, price, q[i])).some

\* C21: details exist for every queued order.  For every local id in the
\* price queue of a price listed in PriceSet(side), get_order of
\* OrderId(prefix, side, price, local id) gives an entry, so that every id
\* orders(side) yields resolves.
C21_DetailsExist ==
    \A side \in Sides : \A price \in GetBook(Stored, side) :
        C21_Resolves(Stored, side, price, GetPriceQueue(Stored, price))

\* the prices of the calls, and the price 1.0 with the top byte set to 1
TopBytePrices == Prices \cup {HiUnit + 4}

TopByteParams == [side : Sides, price : TopBytePrices, size : Sizes, owner : Users]

C22_Entry(params, r, id, got) ==
    /\ got.some
    /\ IdSide(id) = params.side
    /\ got.price = params.price
    /\ got.size = r.posted_size
    /\ got.details = params.owner
    /\ Last(GetPriceQueue(r.s, params.price)) = IdLocal(id)

C22_Holds(params, r) ==
    r.result = "Ok" =>
        /\ (r.posted_id # <<>>) <=> (params.size - SumSizes(r.s.given) > 0)
        /\ r.posted_id # <<>> =>
                C22_Entry(params, r, r.posted_id[1], GetOrder(r.s, r.posted_id[1]))

\* C22: posting the residual.  A successful place_order returns
\* posted_id = Some(id) exactly when what matching left of params.size is
\* above 0; get_order(id) then gives an entry of the side and price of the
\* call, of size posted_size, with the taker's details, and the id is the
\* last of its price queue.
C22_PostingResidual ==
    \A params \in TopByteParams : C22_Holds(params, PlaceCall(params))

\* the ids of the makers a call filled completely
FilledOut(fills) == {fills[i].id : i \in {j \in 1 .. Len(fills) : fills[j].size = fills[j].before}}

\* the ids of the makers a call filled
FilledIds(fills) == {fills[i].id : i \in 1 .. Len(fills)}

StillListed(ids, gone) == SelectSeq(ids, LAMBDA id : id \notin gone)

C23_Kept(f, got) ==
    /\ got.some
    /\ got.id = f.id
    /\ got.size = f.before - f.size
    /\ got.details = f.owner

C23_Recovered(s, f, c) ==
    /\ c.result = "Ok"
    /\ c.s.bal[CollateralToken(IdSide(f.id))][f.owner]
            - s.bal[CollateralToken(IdSide(f.id))][f.owner]
          = Collateral(IdSide(f.id), f.price, f.before - f.size)

C23_Fill(r, f) ==
    f.size < f.before =>
        /\ C23_Kept(f, GetOrder(r.s, f.id))
        /\ Orders(r.s, IdSide(f.id))
              = StillListed(Orders(Stored, IdSide(f.id)), FilledOut(r.s.fills))
        /\ C23_Recovered(r.s, f, CancelOrder(NextCall(r.s, f.owner), market_info,
                                             debug_assertions, f.id))

C23_Holds(params, r) ==
    r.result = "Ok" =>
        /\ \A i \in 1 .. Len(r.s.fills) : C23_Fill(r, r.s.fills[i])
        /\ \A id \in OrderIds :
                (id \notin FilledIds(r.s.fills) /\ r.posted_id # <<id>>) =>
                    GetOrder(r.s, id) = GetOrder(Stored, id)

\* C23: a partial fill keeps the maker in place.  A resting order of size s
\* filled for f < s stays under its OrderId with size s - f and its details,
\* orders(side) lists it where it was among the orders that stay, its owner's
\* cancel succeeds and returns the collateral of s - f, and the orders the
\* call did not fill are as they were.
C23_PartialFillKeepsMaker ==
    \A params \in ParamChoices : C23_Holds(params, PlaceCall(params))

C23_Case(params, r) ==
    /\ r.result = "Ok"
    /\ \E i \in 1 .. Len(r.s.fills) :
            /\ r.s.fills[i].size < r.s.fills[i].before
            /\ C23_Kept(r.s.fills[i], GetOrder(r.s, r.s.fills[i].id))
    /\ \E id \in OrderIds : id \notin FilledIds(r.s.fills) /\ GetOrder(Stored, id).some

\* a call filled a part of a maker while another order rested
C23_Witness ==
    \E params \in ParamChoices : C23_Case(params, PlaceCall(params))

\* the live orders among those orders(side) lists, in its order
LiveListed(s, side) == SelectSeq(Orders(s, side), LAMBDA id : GetOrder(s, id).some)

C24_NoOp(s, t) ==
    /\ \A side \in Sides :
            /\ GetBook(t, side) = GetBook(s, side)
            /\ LiveListed(t, side) = LiveListed(s, side)
    /\ \A id \in OrderIds : GetOrder(s, id).some => GetOrder(t, id) = GetOrder(s, id)

C24_Holds(s, id) == ~GetOrder(s, id).some => C24_NoOp(s, EngineCancelOrder(s, id))

\* C24: engine cancel of a missing order.  OrderBook::cancel_order of an id
\* that names no live order leaves every live order retrievable through
\* get_order and at its position in orders(side), and the price sets as
\* they were.
C24_CancelMissingNoOp == \A id \in OrderIds : C24_Holds(Stored, id)

\* the owner holds less than the escrow of the call
LacksEscrow(params) ==
    bal[CollateralToken(params.side)][params.owner]
        < Collateral(params.side, params.price, params.size)

C25_Holds(params, r) ==
    LacksEscrow(params) =>
        /\ r.result # "Ok"
        /\ StorageOf(r.s) = <<bal, book, queue, recs, events>>
        /\ Left(Begin(params.owner), r) = <<bal, book, queue, recs, events>>
        /\ r.posted_id = <<>>
        /\ r.s.fills = <<>>

C25_Case(params, r) ==
    /\ LacksEscrow(params)
    /\ params.size >= market_info.base_min_order_size
    /\ r.result = "panic"
    /\ Resting(Opposite(params.side)) # {}

C26_NeverCrossed ==
    \A b \in Resting("Bid"), a \in Resting("Ask") : IdPrice(b) < IdPrice(a)

\* a Bid and an Ask rest, and a place_order that crosses the resting order is
\* filled instead of posted
C26_Case(params, r) ==
    /\ r.result = "Ok"
    /\ r.s.fills # <<>>
    /\ r.posted_id = <<>>

C26_Witness ==
    /\ Resting("Bid") # {}
    /\ Resting("Ask") # {}
    /\ \E params \in ParamChoices : C26_Case(params, PlaceCall(params))

\* the collateral of a resting order of the current state
CollateralOf(got) == Collateral(IdSide(got.id), got.price, got.size)

RECURSIVE SumCollateral(_)
SumCollateral(ids) ==
    IF ids = {} THEN 0
    ELSE LET id == CHOOSE x \in ids : TRUE
         IN  CollateralOf(GetOrder(Stored, id)) + SumCollateral(ids \ {id})

C27_Funded ==
    /\ bal[BaseToken][Contract] = SumCollateral(Resting("Ask"))
    /\ bal[QuoteToken][Contract] >= SumCollateral(Resting("Bid"))

C27_CancelPays(order, got) == got.some => CancelCall(order, got.details).result = "Ok"

\* a place_order that panics does so at its own escrow or in quote_amount of
\* its own size, never in a transfer out of the contract
C27_SettlementPays(params, r) ==
    r.result = "panic" =>
        \/ LacksEscrow(params)
        \/ QuoteAmountPanics(debug_assertions, params.price, params.size)

\* C27: escrow solvency.  In every state successful calls leave, the
\* contract's base balance is the sum of the sizes of the resting Asks and its
\* quote balance is at least the sum of quote_amount(price, size) of the
\* resting Bids; the cancel of a resting order by its owner and the
\* settlement of a fill do not fail for lack of contract funds.
C27_EscrowSolvency ==
    /\ C27_Funded
    /\ \A order \in OrderIds : C27_CancelPays(order, GetOrder(Stored, order))
    /\ \A params \in ParamChoices : C27_SettlementPays(params, PlaceCall(params))

\* the calls, and those of size 0
ZeroSizeParams == [side : Sides, price : Prices, size : Sizes \cup {0}, owner : Users]

C28_Holds(r) ==
    /\ \A i \in 1 .. Len(r.s.fills) : r.s.fills[i].size >= 1
    /\ \A i \in 1 .. Len(r.s.given) : r.s.given[i].size >= 1

\* C28: no zero-size fill.  With a minimum order size of 1 or more, every
\* fill of a market place_order has a size of 1 or more: the closure is never
\* given an entry of size 0 and no Fill(0) event is pushed.
C28_NoZeroSizeFill ==
    market_info.base_min_order_size >= 1 =>
        \A params \in ZeroSizeParams : C28_Holds(PlaceCall(params))

\* a taker was used up by the first of two makers that pass its gate
C28_Case(params, r) ==
    /\ r.result = "Ok"
    /\ Len(r.s.fills) = 1
    /\ r.posted_id = <<>>
    /\ \E y \in Resting(Opposite(params.side)) :
            /\ y # r.s.fills[1].id
            /\ IsMatching(params, GetOrder(Stored, y))

C28_Witness ==
    /\ market_info.base_min_order_size >= 1
    /\ \E params \in ParamChoices : C28_Case(params, PlaceCall(params))

NoEvents(s) == DOMAIN s.events = {}

C29_AfterPlace(r) == r.result = "Ok" => NoEvents(r.s)

C29_AfterCancel(c) == c.result = "Ok" => NoEvents(c.s)

\* C29: no pending events after settlement.  Every Fill event pushed for a
\* maker during a market place_order is consumed by the settlement closure
\* within the call: after every successful place_order or cancel_order the
\* event queue holds no event for any order.
C29_NoPendingEvents ==
    /\ DOMAIN events = {}
    /\ \A params \in ParamChoices : C29_AfterPlace(PlaceCall(params))
    /\ \A order \in OrderIds, caller \in Users : C29_AfterCancel(CancelCall(order, caller))

C29_Case(r) ==
    /\ r.result = "Ok"
    /\ Len(r.s.fills) = 2
    /\ NoEvents(r.s)

\* a call filled two makers and left no event
C29_Witness ==
    \E params \in ParamChoices : C29_Case(PlaceCall(params))

C30_QueueKeys(e) ==
    \A price \in AllPrices : price # e.price => PriceQueueKey(price) # e.queue_key

C30_SizeKey(e) ==
    \A side \in Sides, price \in AllPrices, lid \in LocalIds :
        OrderIdNew(e.prefix, side, price, lid) # e.size_key

\* C30: storage keys are collision-free.  Two different prices never have
\* the same price queue key, and the size key of an order (its id with the
\* attribute byte set to ORDER_ATTR_KEY_SIZE) is never the details key of
\* that order or of another, for every price of the u64 range.
C30_KeysCollisionFree ==
    last.op = "new" => (C30_QueueKeys(last) /\ C30_SizeKey(last))

====
